---- MODULE Spec2Model ----
(***************************************************************************)
(* A model of preserve.py: the inventory subcommand (resumable file        *)
(* listing with checksums), the compare subcommand (set reconciliation of  *)
(* file listings) and the verify subcommand (resolution of two paths).     *)
(*                                                                         *)
(* A file name is a sequence of characters, a path is a sequence of names  *)
(* whose first name is SLASH when the path is absolute.  A CSV cell is a   *)
(* record [t, v]: t = "int" for a Python int as held in a metadata dict,   *)
(* t = "txt" for text as it stands in a CSV file.                          *)
(***************************************************************************)
EXTENDS Integers, Sequences, FiniteSets, TLC

\* Number of inventory invocations explored, and of changes made by the user
\* (creating or deleting a file, putting an inventory file at a destination)
\* around and during them.
MaxRuns == 2
MaxChanges == 1

----------------------------------------------------------------------------
\* Names and paths of the explored file system.

SLASH == <<"/">>
R == <<"r">>
H == <<".", "h">>
D == <<"d">>
X == <<"x">>
N == <<"n">>
O == <<"o">>
A == <<"a", ".", "t">>
B == <<"b">>
DOTC == <<".", "c">>

\* the process's working directory
CWD == <<SLASH, R>>

\* the directories that exist (the model never creates or removes one)
Dirs == {<<SLASH>>, <<SLASH, R>>, <<SLASH, R, H>>, <<SLASH, R, D>>, <<SLASH, X>>}

\* the files the user may create or delete, and a hidden file that stays
UserFiles == {<<SLASH, R, A>>, <<SLASH, R, H, B>>, <<SLASH, R, D, B>>}
StaticFiles == {<<SLASH, R, DOTC>>}

\* values of the command line: args.path and args.outfile (None: no -o)
None == <<>>
PathArgs == {<<SLASH, R>>, <<H>>, <<SLASH, N>>}
OutfileArgs == {None, <<O>>, <<SLASH, X, O>>}

\* the order in which a directory's entries are listed by the system
ScandirOrder == <<A, B, DOTC, O, D, H, R, X>>

FIELDNAMES == {"Directory", "Filename", "Extension", "Bytes", "MTime", "Moddate", "MD5"}

----------------------------------------------------------------------------
\* os.path and str helpers

abspath(p) == IF p # <<>> /\ p[1] = SLASH THEN p ELSE CWD \o p

dirname(p) == SubSeq(p, 1, Len(p) - 1)

basename(p) == p[Len(p)]

join(d, n) == Append(d, n)

startswith_dot(n) == n # <<>> /\ n[1] = "."

\* position of the last dot of a name that is not a leading dot, 0 if none
LastDot(n) ==
    LET dots == {i \in 2..Len(n) : n[i] = "."}
    IN IF dots = {} THEN 0 ELSE CHOOSE i \in dots : \A j \in dots : j <= i

upper(c) == CASE c = "a" -> "A" [] c = "b" -> "B" [] c = "c" -> "C"
              [] c = "t" -> "T" [] c = "o" -> "O" [] OTHER -> c

\* os.path.splitext(f)[1].lstrip('.').upper()
Extension(n) ==
    LET k == LastDot(n)
        ext == IF k = 0 THEN <<>> ELSE SubSeq(n, k + 1, Len(n))
    IN [i \in 1..Len(ext) |-> upper(ext[i])]

IntCell(n) == [t |-> "int", v |-> n]
TxtCell(s) == [t |-> "txt", v |-> s]

\* the text csv.DictWriter writes for a value
Str(c) == IF c.t = "int" THEN TxtCell(c.v) ELSE c

Range(s) == {s[i] : i \in 1..Len(s)}

----------------------------------------------------------------------------
VARIABLES
    disk,            \* the user files present on disk
    outfiles,        \* path -> lines of the inventory file there, or NoFile
    pc,              \* position of the running command
    SEARCHROOT, OUTFILE, all_files, complete_list, files_to_check,
    fh,              \* where the csv writer writes: "stdout", "file", "none"
    count, total,
    stdout,          \* the lines the process wrote to standard output
    md5calls,        \* the paths md5sum was invoked on, in order
    resumed,         \* the run loaded an existing inventory
    start_disk,      \* disk when the run started
    stable,          \* no user change since the run started
    prev,            \* what the previous invocation left, NoRun if none
    runs, changes,
    filelists,       \* compare: dict from file path to the entries parsed
    idx,             \* compare, verify: position of the loop over the arguments
    common,          \* compare: the intersection computed
    err,             \* the exception that ended the command, "" if none
    stored,          \* the lines the destination held when the run opened it
    all_paths,       \* verify: the two arguments
    inventories      \* verify: dict from argument to what it resolved to

vars == <<disk, outfiles, pc, SEARCHROOT, OUTFILE, all_files, complete_list,
          files_to_check, fh, count, total, stdout, md5calls, resumed,
          start_disk, stable, prev, runs, changes, filelists, idx, common, err,
          stored, all_paths, inventories>>

invvars == <<disk, outfiles, SEARCHROOT, OUTFILE, complete_list, files_to_check,
             fh, count, total, md5calls, resumed, start_disk, stable, prev,
             runs, changes, stored>>
cmpvars == <<filelists, idx, common>>
vervars == <<all_paths, inventories>>

NoFile == [exists |-> FALSE, lines |-> <<>>]
NoRun == [completed |-> FALSE, root |-> <<>>, out |-> <<>>, disk |-> {},
          stable |-> FALSE, scan |-> {}, content |-> <<>>, resumed |-> FALSE]

OutPaths == {abspath(o) : o \in OutfileArgs \ {None}}

\* the regular files present: user files and written inventories
Present == disk \cup StaticFiles \cup {o \in OutPaths : outfiles[o].exists}

----------------------------------------------------------------------------
\* Lines of a stream: text printed for the user, or CSV written by the writer

TextLine(s) == [kind |-> "text", text |-> s, row |-> <<>>]
CsvHeader == [kind |-> "csvheader", text |-> "", row |-> <<>>]
CsvRow(r) == [kind |-> "csvrow", text |-> "", row |-> r]

\* print_header(subcommand): a blank line, the title, the bar
print_header(subcommand) ==
    <<TextLine(""), TextLine(subcommand), TextLine("bar")>>

----------------------------------------------------------------------------
\* list_files: os.walk top-down, pruning names that begin with a dot

PruneDirs(dirs) == SelectSeq(dirs, LAMBDA d : ~startswith_dot(d))
PruneFiles(files) == SelectSeq(files, LAMBDA f : ~startswith_dot(f))

RECURSIVE walk(_, _)
RECURSIVE walk_dirs(_, _, _)

\* os.walk(top) with onerror=None: a top that cannot be scanned yields nothing
walk(top, present) ==
    IF top \notin Dirs THEN <<>>
    ELSE LET dirs == PruneDirs(SelectSeq(ScandirOrder, LAMBDA n : join(top, n) \in Dirs))
             files == PruneFiles(SelectSeq(ScandirOrder, LAMBDA n : join(top, n) \in present))
         IN [i \in 1..Len(files) |-> join(top, files[i])] \o walk_dirs(top, dirs, present)

walk_dirs(top, dirs, present) ==
    IF dirs = <<>> THEN <<>>
    ELSE walk(join(top, Head(dirs)), present) \o walk_dirs(top, Tail(dirs), present)

list_files(path, present) == walk(path, present)

----------------------------------------------------------------------------
\* read_inventory: a dict, in insertion order, from path key to row

Keys(d) == {d[i].key : i \in 1..Len(d)}

\* DictPut as list.append: a row is added whether or not its key is there
DictPut_append(d, k, v) == Append(d, [key |-> k, row |-> v])

DictPut(d, k, v) ==
    IF k \in Keys(d)
    THEN [i \in 1..Len(d) |-> IF d[i].key = k THEN [key |-> k, row |-> v] ELSE d[i]]
    ELSE Append(d, [key |-> k, row |-> v])

RowKey(row) == join(row.Directory.v, row.Filename.v)

RECURSIVE read_rows(_, _)
read_rows(lines, result) ==
    IF lines = <<>> THEN result
    ELSE read_rows(Tail(lines), DictPut(result, RowKey(Head(lines).row), Head(lines).row))

\* read_inventory with a dict that does not keep the order of insertion
read_inventory_unordered(lines) ==
    LET d == IF lines = <<>> THEN <<>> ELSE read_rows(Tail(lines), <<>>)
    IN [i \in 1..Len(d) |-> d[Len(d) + 1 - i]]

\* csv.DictReader takes the first line as the field names
read_inventory(lines) ==
    IF lines = <<>> THEN <<>> ELSE read_rows(Tail(lines), <<>>)

\* FilesToCheck without the difference: every listed file is checked again
FilesToCheck_all(listed, loaded) == Range(listed)

\* set(all_files).difference(already_done)
FilesToCheck(listed, loaded) == Range(listed) \ Keys(loaded)

\* the orders in which a set may be iterated
Orderings(S) == {s \in [1..Cardinality(S) -> S] : Range(s) = S}

----------------------------------------------------------------------------
\* what stat and md5sum return for a file; an inventory file that is still
\* open for writing has whatever part of its lines has reached the disk

Bytes(f, flushed) == IF f \in OutPaths THEN flushed ELSE Len(basename(f))
MTime(f) == Len(f)
md5sum(f, flushed) == [src |-> f, len |-> Bytes(f, flushed)]

Metadata(f, flushed) ==
    [Directory |-> TxtCell(dirname(abspath(f))),
     Filename  |-> TxtCell(basename(f)),
     MTime     |-> IntCell(MTime(f)),
     Moddate   |-> TxtCell(MTime(f)),
     Extension |-> TxtCell(Extension(basename(f))),
     Bytes     |-> IntCell(Bytes(f, flushed)),
     MD5       |-> TxtCell(md5sum(f, flushed))]

\* csv.DictWriter.writerow
writerow(rowdict) == CsvRow([f \in FIELDNAMES |-> Str(rowdict[f])])

----------------------------------------------------------------------------
Init ==
    /\ disk \in {UserFiles, UserFiles \ {<<SLASH, R, A>>}}
    /\ outfiles = [o \in OutPaths |-> NoFile]
    /\ pc = "idle"
    /\ SEARCHROOT = <<>> /\ OUTFILE = None
    /\ all_files = <<>> /\ complete_list = <<>> /\ files_to_check = <<>>
    /\ fh = "none"
    /\ count = 0 /\ total = 0
    /\ stdout = <<>>
    /\ md5calls = <<>>
    /\ resumed = FALSE
    /\ start_disk = {}
    /\ stable = TRUE
    /\ prev = NoRun
    /\ runs = 0 /\ changes = 0
    /\ filelists = <<>> /\ idx = 0 /\ common = {}
    /\ err = ""
    /\ stored = <<>>
    /\ all_paths = <<>> /\ inventories = <<>>

\* inventory(args), up to the first loop
InventoryStart(path, outfile) ==
    /\ pc = "idle"
    /\ runs < MaxRuns
    /\ LET root == abspath(path)
           out == IF outfile # None THEN abspath(outfile) ELSE None
           listed == list_files(root, Present)
           found == out # None /\ outfiles[out].exists
           loaded == IF found THEN read_inventory(outfiles[out].lines) ELSE <<>>
       IN /\ SEARCHROOT' = root
          /\ OUTFILE' = out
          /\ all_files' = listed
          /\ complete_list' = loaded
          /\ resumed' = found
          /\ stored' = IF found THEN outfiles[out].lines ELSE <<>>
          /\ files_to_check' \in (IF found THEN Orderings(FilesToCheck(listed, loaded))
                                  ELSE {listed})
          /\ fh' = IF out # None THEN "file" ELSE "stdout"
          /\ outfiles' = IF out # None
                         THEN [outfiles EXCEPT ![out] = [exists |-> TRUE, lines |-> <<CsvHeader>>]]
                         ELSE outfiles
          /\ stdout' = print_header("inventory")
                       \o <<TextLine("Checking path")>>
                       \o (IF out # None THEN <<TextLine("Writing inventory to file")>>
                           ELSE <<TextLine("Writing inventory to stdout"), CsvHeader>>)
          /\ total' = Len(listed)
    /\ count' = 0
    /\ md5calls' = <<>>
    /\ start_disk' = disk
    /\ stable' = TRUE
    /\ runs' = runs + 1
    /\ pc' = "copy"
    /\ UNCHANGED <<disk, prev, changes, cmpvars, vervars, err>>

\* the writer's stream receives a line, standard output the printed ones
Emit(line, printed) ==
    IF fh = "stdout"
    THEN /\ stdout' = Append(stdout, line) \o printed
         /\ UNCHANGED outfiles
    ELSE /\ outfiles' = [outfiles EXCEPT ![OUTFILE].lines = Append(@, line)]
         /\ stdout' = stdout \o printed

\* one iteration of "for item in complete_list"
CopyRow ==
    /\ pc = "copy"
    /\ count < Len(complete_list)
    /\ Emit(writerow(complete_list[count + 1].row), <<>>)
    /\ count' = count + 1
    /\ UNCHANGED <<disk, pc, SEARCHROOT, OUTFILE, all_files, complete_list,
                   files_to_check, fh, total, md5calls, resumed, start_disk,
                   stable, prev, runs, changes, cmpvars, vervars, stored, err>>

\* the first loop is exhausted
CopyDone ==
    /\ pc = "copy"
    /\ count >= Len(complete_list)
    /\ pc' = "check"
    /\ UNCHANGED <<disk, outfiles, SEARCHROOT, OUTFILE, all_files, complete_list,
                   files_to_check, fh, count, total, stdout, md5calls, resumed,
                   start_disk, stable, prev, runs, changes, cmpvars, vervars, stored, err>>

\* one iteration of "for f in files_to_check"
CheckFile ==
    /\ pc = "check"
    /\ files_to_check # <<>>
    /\ LET f == Head(files_to_check)
       IN IF f \notin Present
          THEN \* os.path.getmtime raises FileNotFoundError, which nothing catches
               /\ pc' = "crashed"
               /\ err' = "FileNotFoundError"
               /\ UNCHANGED <<outfiles, files_to_check, count, stdout, md5calls>>
          ELSE /\ \E flushed \in 0..(IF f \in OutPaths THEN Len(outfiles[f].lines) ELSE 0) :
                     Emit(writerow(Metadata(f, flushed)),
                          <<[kind |-> "text", text |-> "Files checked", row |-> <<count + 1, total>>]>>)
               /\ md5calls' = Append(md5calls, f)
               /\ files_to_check' = Tail(files_to_check)
               /\ count' = count + 1
               /\ pc' = "check"
               /\ err' = err
    /\ UNCHANGED <<disk, SEARCHROOT, OUTFILE, all_files, complete_list, fh, total,
                   resumed, start_disk, stable, prev, runs, changes, cmpvars, vervars, stored>>

\* after the loops: close the file, clear the counter, report completion
Finish ==
    /\ pc = "check"
    /\ files_to_check = <<>>
    /\ stdout' = stdout \o <<TextLine(""), TextLine("Inventory complete!"), TextLine("")>>
    /\ pc' = "done"
    /\ UNCHANGED <<disk, outfiles, SEARCHROOT, OUTFILE, all_files, complete_list,
                   files_to_check, fh, count, total, md5calls, resumed,
                   start_disk, stable, prev, runs, changes, cmpvars, vervars, stored, err>>

\* the process ends; the next invocation starts from fresh locals
Exit ==
    /\ pc \in {"done", "crashed"}
    /\ prev' = [completed |-> pc = "done", root |-> SEARCHROOT, out |-> OUTFILE,
                disk |-> start_disk, stable |-> stable /\ disk = start_disk,
                scan |-> Range(all_files),
                content |-> IF OUTFILE # None THEN outfiles[OUTFILE].lines ELSE <<>>,
                resumed |-> resumed]
    /\ pc' = "idle"
    /\ SEARCHROOT' = <<>> /\ OUTFILE' = None
    /\ all_files' = <<>> /\ complete_list' = <<>> /\ files_to_check' = <<>>
    /\ fh' = "none"
    /\ count' = 0 /\ total' = 0
    /\ stdout' = <<>>
    /\ md5calls' = <<>>
    /\ resumed' = FALSE
    /\ start_disk' = {}
    /\ stable' = TRUE
    /\ err' = ""
    /\ stored' = <<>>
    /\ UNCHANGED <<disk, outfiles, runs, changes, cmpvars, vervars>>

\* The user creates a file, between two invocations or while the second loop
\* runs.  The command reads the tree when it lists it and in the second loop
\* only, so a change made at another moment of a run is seen as one made when
\* the second loop starts.
CreateFile(f) ==
    /\ pc \in {"idle", "check"}
    /\ changes < MaxChanges
    /\ f \notin disk
    /\ disk' = disk \cup {f}
    /\ stable' = FALSE
    /\ changes' = changes + 1
    /\ UNCHANGED <<outfiles, pc, SEARCHROOT, OUTFILE, all_files, complete_list,
                   files_to_check, fh, count, total, stdout, md5calls, resumed,
                   start_disk, prev, runs, cmpvars, vervars, stored, err>>

\* the user deletes a file, at the same moments
DeleteFile(f) ==
    /\ pc \in {"idle", "check"}
    /\ changes < MaxChanges
    /\ f \in disk
    /\ disk' = disk \ {f}
    /\ stable' = FALSE
    /\ changes' = changes + 1
    /\ UNCHANGED <<outfiles, pc, SEARCHROOT, OUTFILE, all_files, complete_list,
                   files_to_check, fh, count, total, stdout, md5calls, resumed,
                   start_disk, prev, runs, cmpvars, vervars, stored, err>>

\* a row recorded for f when it had another content
OldRecord(f) ==
    [Metadata(f, 0) EXCEPT !.Bytes = IntCell(Len(f) + Len(f)),
                           !.MD5 = TxtCell([src |-> f, len |-> Len(f) + Len(f)])]

\* Inventory files that did not come from a run of this tree: an empty file,
\* and a file with two rows for one path, of different values, a row for
\* another path between them.
ForeignInventories ==
    LET a == <<SLASH, R, A>>
        b == <<SLASH, R, D, B>>
    IN {<<>>,
        <<CsvHeader, writerow(OldRecord(a)), writerow(Metadata(b, 0)), writerow(Metadata(a, 0))>>}

\* the destination the user may put such a file at
ForeignPaths == {<<SLASH, X, O>>}

\* the user puts an inventory file at a destination, between two invocations
PutInventory(o, lines) ==
    /\ pc = "idle"
    /\ changes < MaxChanges
    /\ outfiles[o] # [exists |-> TRUE, lines |-> lines]
    /\ outfiles' = [outfiles EXCEPT ![o] = [exists |-> TRUE, lines |-> lines]]
    /\ changes' = changes + 1
    /\ UNCHANGED <<disk, pc, SEARCHROOT, OUTFILE, all_files, complete_list,
                   files_to_check, fh, count, total, stdout, md5calls, resumed,
                   start_disk, stable, prev, runs, cmpvars, vervars, stored, err>>

Next ==
    \/ \E path \in PathArgs, outfile \in OutfileArgs : InventoryStart(path, outfile)
    \/ CopyRow
    \/ CopyDone
    \/ CheckFile
    \/ Finish
    \/ Exit
    \/ \E f \in UserFiles : CreateFile(f)
    \/ \E f \in UserFiles : DeleteFile(f)
    \/ \E o \in ForeignPaths, lines \in ForeignInventories : PutInventory(o, lines)

Spec == Init /\ [][Next]_vars

----------------------------------------------------------------------------
\* compare.  A line of an input file is a sequence of glyphs, a glyph being
\* a character or one of the character groups the code searches for.

SIG == "IBM Tivoli Storage Manager"
NORMAL == "Normal File-->"
SENT == " [Sent]"
BACKSLASH == "\\"
TAB == "\t"
COMMA == ","
KEY == "Key"
FILENAME == "Filename"

\* the result of looking up a column the csv reader had no cell for
PyNone == <<"None">>

\* the files that may be named on the command line, and their lines
InputFiles == {"f1", "f2", "f3", "f4", "f5", "f6", "f7"}

Content(filepath) ==
    CASE filepath = "f1" -> <<  <<KEY, COMMA, "n">>,
                                <<"x", COMMA, "1">>,
                                <<"y", COMMA, "2">>,
                                <<"z", COMMA, "3">>  >>
      [] filepath = "f2" -> <<  <<"n", TAB, FILENAME>>,
                                <<"1", TAB, "y">>,
                                <<"2", TAB, "z">>,
                                <<"3", TAB, "w">>,
                                <<"4", TAB, "y">>  >>
      [] filepath = "f3" -> <<  <<SIG>>,
                                <<NORMAL, " ", BACKSLASH, "s", BACKSLASH, "z", SENT>>,
                                <<NORMAL, " ", BACKSLASH, "s", BACKSLASH, "x", " ", "*">>,
                                <<"D", " ", BACKSLASH, "s", BACKSLASH, "w", SENT>>,
                                <<NORMAL, " ", BACKSLASH, "s", BACKSLASH, "v", SENT>>  >>
      [] filepath = "f4" -> <<  <<"h", "i">>, <<"x">>  >>
      [] filepath = "f5" -> <<  >>
      [] filepath = "f6" -> <<  <<KEY, "w", COMMA, "n">>,
                                <<"x", COMMA, "1">>  >>
      [] filepath = "f7" -> <<  <<FILENAME, COMMA, "n">>  >>

\* sub in line, for strings
Contains(line, sub) ==
    \E i \in 1..(Len(line) - Len(sub) + 1) : SubSeq(line, i, i + Len(sub) - 1) = sub

\* re.compile(r"([^\\]+) \[Sent\]").search(line).group(1), <<>> for no match
SentMatch(line) ==
    LET ends(i) == {j \in (i + 1)..Len(line) :
                       /\ line[j] = SENT
                       /\ \A k \in i..(j - 1) : line[k] # BACKSLASH}
        starts == {i \in 1..Len(line) : ends(i) # {}}
    IN IF starts = {} THEN <<>>
       ELSE LET i0 == CHOOSE i \in starts : \A k \in starts : i <= k
                j0 == CHOOSE j \in ends(i0) : \A k \in ends(i0) : k <= j
            IN SubSeq(line, i0, j0 - 1)

RECURSIVE TivoliEntries(_)
TivoliEntries(rawlines) ==
    IF rawlines = <<>> THEN <<>>
    ELSE LET line == Head(rawlines)
             m == SentMatch(line)
         IN (IF Contains(line, <<NORMAL>>) /\ m # <<>> THEN <<m>> ELSE <<>>)
            \o TivoliEntries(Tail(rawlines))

\* the cells of a line of delimited text
RECURSIVE Split(_, _)
Split(line, delimiter) ==
    IF \A i \in 1..Len(line) : line[i] # delimiter THEN <<line>>
    ELSE LET i == CHOOSE i \in 1..Len(line) :
                     /\ line[i] = delimiter
                     /\ \A k \in 1..(i - 1) : line[k] # delimiter
         IN <<SubSeq(line, 1, i - 1)>> \o Split(SubSeq(line, i + 1, Len(line)), delimiter)

\* l[filenamecol] for a row l of csv.DictReader; "KeyError" without the column
Lookup(fieldnames, cells, col) ==
    LET at == {i \in 1..Len(fieldnames) : fieldnames[i] = col}
    IN IF at = {} THEN "KeyError"
       ELSE LET i == CHOOSE i \in at : \A k \in at : k <= i
            IN IF i <= Len(cells) THEN cells[i] ELSE PyNone

\* the body of "with open(filepath) as f": the exception raised ("" if none),
\* the result list and what was printed
ParseLines(rawlines) ==
    IF rawlines = <<>>
    THEN [exc |-> "IndexError", result |-> <<>>, printed |-> <<>>]
    ELSE IF rawlines[1] = <<SIG>>
    THEN [exc |-> "", result |-> TivoliEntries(rawlines),
          printed |-> <<TextLine("Parsing Tivoli output file...")>>]
    ELSE IF Contains(rawlines[1], <<KEY>>) \/ Contains(rawlines[1], <<FILENAME>>)
    THEN LET delimiter == IF Contains(rawlines[1], <<TAB>>) THEN TAB ELSE COMMA
             fieldnames == Split(rawlines[1], delimiter)
             rows == SelectSeq(Tail(rawlines), LAMBDA l : l # <<>>)
             filenamecol == IF Contains(rawlines[1], <<KEY>>) THEN <<KEY>> ELSE <<FILENAME>>
             values == [i \in 1..Len(rows) |->
                           Lookup(fieldnames, Split(rows[i], delimiter), filenamecol)]
             printed == <<TextLine("Parsing DPI inventory file => "),
                          TextLine(IF delimiter = TAB THEN "tab delimited..."
                                   ELSE "comma delimited...")>>
         IN IF \E i \in 1..Len(values) : values[i] = "KeyError"
            THEN [exc |-> "KeyError", result |-> <<>>, printed |-> printed]
            ELSE [exc |-> "", result |-> values, printed |-> printed]
    ELSE [exc |-> "", result |-> <<>>, printed |-> <<TextLine("Unrecognized file type ...")>>]

\* filelists[filepath] = result
SetList(d, k, v) ==
    IF \E i \in 1..Len(d) : d[i].key = k
    THEN [i \in 1..Len(d) |-> IF d[i].key = k THEN [key |-> k, val |-> v] ELSE d[i]]
    ELSE Append(d, [key |-> k, val |-> v])

\* Intersection taken as the union of the sets
Intersection_union(all_lists) == UNION Range(all_lists)

\* set.intersection(*all_lists), for a non-empty all_lists
Intersection(all_lists) ==
    {e \in all_lists[1] : \A i \in 1..Len(all_lists) : e \in all_lists[i]}

\* set(filelists[filelist]).difference(common)
Unique(list, com) == Range(list) \ com

\* sorted(unique): strings compare glyph by glyph
Alphabet == <<" ", "*", "1", "2", "3", "4", "D", "h", "i", "n", "s", "v", "w", "x", "y", "z">>
Rank(g) == IF \E i \in 1..Len(Alphabet) : Alphabet[i] = g
           THEN CHOOSE i \in 1..Len(Alphabet) : Alphabet[i] = g
           ELSE 0
RECURSIVE StrLess(_, _)
StrLess(a, b) ==
    IF b = <<>> THEN FALSE
    ELSE IF a = <<>> THEN TRUE
    ELSE IF Head(a) # Head(b) THEN Rank(Head(a)) < Rank(Head(b))
    ELSE StrLess(Tail(a), Tail(b))
RECURSIVE sorted(_)
sorted(S) ==
    IF S = {} THEN <<>>
    ELSE LET m == CHOOSE x \in S : \A y \in S \ {x} : StrLess(x, y)
         IN <<m>> \o sorted(S \ {m})

\* compare(args), up to the loop over all_files
CompareStart(first, other) ==
    /\ pc = "idle"
    /\ stdout' = print_header("file checker")
    /\ filelists' = <<>>
    /\ all_files' = <<first>> \o other
    /\ idx' = 1
    /\ common' = {}
    /\ pc' = "parse"
    /\ UNCHANGED <<invvars, vervars, err>>

\* one iteration of "for filepath in all_files"
ParseFile ==
    /\ pc = "parse"
    /\ idx <= Len(all_files)
    /\ LET filepath == all_files[idx]
           p == ParseLines(Content(filepath))
       IN IF p.exc # ""
          THEN /\ pc' = "crashed"
               /\ err' = p.exc
               /\ stdout' = stdout \o p.printed
               /\ UNCHANGED <<filelists, idx>>
          ELSE /\ filelists' = IF p.result # <<>>
                               THEN SetList(filelists, filepath, p.result)
                               ELSE filelists
               /\ stdout' = stdout \o p.printed \o
                     <<IF p.result # <<>>
                       THEN [kind |-> "text", text |-> "parsed",
                             row |-> <<filepath, Len(p.result)>>]
                       ELSE [kind |-> "text", text |-> "has not been parsed",
                             row |-> <<filepath>>]>>
               /\ idx' = idx + 1
               /\ UNCHANGED <<pc, err>>
    /\ UNCHANGED <<invvars, vervars, all_files, common>>

\* after the loop: intersect, then report the common count and the unique lists
CompareReport ==
    /\ pc = "parse"
    /\ idx > Len(all_files)
    /\ LET all_lists == [i \in 1..Len(filelists) |-> Range(filelists[i].val)]
       IN IF all_lists = <<>>
          THEN \* set.intersection() without an argument raises TypeError
               /\ pc' = "crashed"
               /\ err' = "TypeError"
               /\ UNCHANGED <<stdout, common>>
          ELSE LET com == Intersection(all_lists)
               IN /\ common' = com
                  /\ stdout' = stdout
                        \o <<[kind |-> "text", text |-> "common", row |-> <<Cardinality(com)>>]>>
                        \o [n \in 1..Len(filelists) |->
                              [kind |-> "text", text |-> "unique",
                               row |-> <<n, filelists[n].key,
                                         sorted(Unique(filelists[n].val, com))>>]]
                  /\ pc' = "done"
                  /\ UNCHANGED err
    /\ UNCHANGED <<invvars, vervars, all_files, filelists, idx>>

\* the process ends
CompareExit ==
    /\ pc \in {"done", "crashed"}
    /\ pc' = "idle"
    /\ stdout' = <<>>
    /\ all_files' = <<>>
    /\ filelists' = <<>>
    /\ idx' = 0
    /\ common' = {}
    /\ err' = ""
    /\ UNCHANGED <<invvars, vervars>>

\* args.other holds one name or more
MaxOther == 2
OtherArgs == UNION {[1..n -> InputFiles] : n \in 1..MaxOther}

NextCompare ==
    \/ \E first \in InputFiles, other \in OtherArgs : CompareStart(first, other)
    \/ ParseFile
    \/ CompareReport
    \/ CompareExit

SpecCompare == Init /\ [][NextCompare]_vars

----------------------------------------------------------------------------
\* verify

\* values of args.first and args.second: directories, a missing path and
\* the inventory files
VerifyArgs == {<<SLASH, R>>, <<SLASH, R, H>>, <<SLASH, N>>} \cup OutPaths

isfile(p) == p \in Present
isdir(p) == p \in Dirs

\* the inventory file a completed first run over root writes for a tree
FreshInventory(root, tree) ==
    LET listed == list_files(root, tree \cup StaticFiles)
    IN <<CsvHeader>> \o [i \in 1..Len(listed) |-> writerow(Metadata(listed[i], 0))]

\* verify starts on some tree, each inventory file absent or written earlier
InitVerify ==
    /\ disk \in SUBSET UserFiles
    /\ outfiles \in [OutPaths -> {NoFile,
                                  [exists |-> TRUE, lines |-> FreshInventory(<<SLASH, R>>, disk)]}]
    /\ pc = "idle"
    /\ SEARCHROOT = <<>> /\ OUTFILE = None
    /\ all_files = <<>> /\ complete_list = <<>> /\ files_to_check = <<>>
    /\ fh = "none"
    /\ count = 0 /\ total = 0
    /\ stdout = <<>>
    /\ md5calls = <<>>
    /\ resumed = FALSE
    /\ start_disk = {}
    /\ stable = TRUE
    /\ prev = NoRun
    /\ runs = 0 /\ changes = 0
    /\ filelists = <<>> /\ idx = 0 /\ common = {}
    /\ err = ""
    /\ stored = <<>>
    /\ all_paths = <<>> /\ inventories = <<>>

\* verify(args), up to the loop over all_paths
VerifyStart(first, second) ==
    /\ pc = "idle"
    /\ inventories' = <<>>
    /\ all_paths' = <<first, second>>
    /\ idx' = 1
    /\ pc' = "resolve"
    /\ UNCHANGED <<invvars, all_files, stdout, filelists, common, err>>

\* one iteration of "for p in all_paths"
ResolveArg ==
    /\ pc = "resolve"
    /\ idx <= Len(all_paths)
    /\ LET p == all_paths[idx]
       IN IF isfile(p)
          THEN /\ stdout' = Append(stdout, [kind |-> "text", text |-> "is a file!", row |-> <<p>>])
               /\ inventories' = SetList(inventories, p, read_inventory(outfiles[p].lines))
          ELSE IF isdir(p)
          THEN /\ stdout' = Append(stdout, [kind |-> "text", text |-> "is a directory!", row |-> <<p>>])
               /\ inventories' = SetList(inventories, p, list_files(p, Present))
          ELSE /\ stdout' = Append(stdout, [kind |-> "text", text |-> "could not be found!", row |-> <<p>>])
               /\ UNCHANGED inventories
    /\ idx' = idx + 1
    /\ UNCHANGED <<invvars, pc, all_files, all_paths, filelists, common, err>>

\* after the loop: print(inventories); the function returns
VerifyReport ==
    /\ pc = "resolve"
    /\ idx > Len(all_paths)
    /\ stdout' = Append(stdout, [kind |-> "text", text |-> "inventories", row |-> inventories])
    /\ pc' = "done"
    /\ UNCHANGED <<invvars, all_files, all_paths, inventories, idx, filelists, common, err>>

\* the process ends
VerifyExit ==
    /\ pc \in {"done", "crashed"}
    /\ pc' = "idle"
    /\ stdout' = <<>>
    /\ all_paths' = <<>>
    /\ inventories' = <<>>
    /\ idx' = 0
    /\ err' = ""
    /\ UNCHANGED <<invvars, all_files, filelists, common>>

NextVerify ==
    \/ \E first \in VerifyArgs, second \in VerifyArgs : VerifyStart(first, second)
    \/ ResolveArg
    \/ VerifyReport
    \/ VerifyExit

SpecVerify == InitVerify /\ [][NextVerify]_vars

----------------------------------------------------------------------------
\* Properties of inventory (checked under Spec)

\* the rows of a stream of lines, and their path keys
RowsOf(lines) == {lines[i].row : i \in {k \in 1..Len(lines) : lines[k].kind = "csvrow"}}
KeysOf(lines) == {RowKey(r) : r \in RowsOf(lines)}

\* the stream the csv writer of the running command writes to
CsvStream == IF fh = "stdout" THEN stdout
             ELSE IF fh = "file" THEN outfiles[OUTFILE].lines
             ELSE <<>>

\* the previous invocation completed, on the destination of the running one,
\* which still held what that invocation wrote when the running one opened it
Rerun == prev.completed /\ OUTFILE # None /\ prev.out = OUTFILE /\ stored = prev.content

C2_RerunIdentical ==
    (/\ pc = "done" /\ Rerun
     /\ prev.root = SEARCHROOT
     /\ prev.stable /\ stable /\ prev.disk = start_disk /\ disk = start_disk)
        => outfiles[OUTFILE].lines = prev.content

\* C3: the inventory written by a completed resumed run has no row whose key
\* is absent from the run's scan.
C3_NoStaleRows ==
    (pc = "done" /\ resumed) => KeysOf(outfiles[OUTFILE].lines) \subseteq Range(all_files)

\* a path names a hidden file, or lies under a hidden directory below root
Hidden(path, root) ==
    \/ startswith_dot(basename(path))
    \/ /\ Len(path) > Len(root)
       /\ SubSeq(path, 1, Len(root)) = root
       /\ \E i \in (Len(root) + 1)..(Len(path) - 1) : startswith_dot(path[i])

\* C4: no inventory produced by a run, fresh or resumed, has a row for a
\* hidden file or for a file under a hidden directory below the root.
C4_NoHiddenRows ==
    pc = "done" => \A k \in KeysOf(CsvStream) : ~Hidden(k, SEARCHROOT)

\* C8: a run is never ended by a listed file that can no longer be read.
C8_UnreadableFileSkipped ==
    ~(pc = "crashed" /\ err = "FileNotFoundError")

\* C9: a run whose root does not exist fails with NotFoundError and never
\* completes; it does not rewrite an existing destination.
C9_MissingRootFails ==
    (pc # "idle" /\ SEARCHROOT \notin Dirs) =>
        /\ pc = "crashed" /\ err = "NotFoundError"
        /\ Rerun => outfiles[OUTFILE].lines = prev.content

\* C10: the stream that carries the CSV receives the header row and the
\* record rows only.
C10_CsvStreamOnlyCsv ==
    \A i \in 1..Len(CsvStream) : CsvStream[i].kind \in {"csvheader", "csvrow"}

\* two rows of a stream of lines have the same path key
HasDuplicateKeys(lines) ==
    \E i, j \in {k \in 1..Len(lines) : lines[k].kind = "csvrow"} :
        i # j /\ RowKey(lines[i].row) = RowKey(lines[j].row)

\* C12: at every moment of a run, fresh or resumed, no two rows written so
\* far have the same path key, whatever the destination held before.
C12_KeysUnique ==
    fh # "none" => ~HasDuplicateKeys(CsvStream)

\* a completed run that resumed from a destination with two rows for one path
C12_Witness ==
    /\ pc = "done" /\ resumed
    /\ HasDuplicateKeys(stored)
    /\ Len(CsvStream) > Len(complete_list)

\* the rows the destination held when the run opened it, in stored order
StoredRows == IF stored = <<>> THEN <<>> ELSE [i \in 1..(Len(stored) - 1) |-> stored[i + 1].row]

\* the rows of the destination now: those written by the first loop (one for
\* each loaded key) and those written by the second (one for each md5sum call)
WrittenRows ==
    LET lines == outfiles[OUTFILE].lines
    IN [i \in 1..(Len(lines) - 1) |-> lines[i + 1].row]
CopiedRows == SubSeq(WrittenRows, 1, Len(WrittenRows) - Len(md5calls))
NewRows == SubSeq(WrittenRows, Len(WrittenRows) - Len(md5calls) + 1, Len(WrittenRows))

\* s can be had from t by leaving elements of t out
IsSubsequence(s, t) ==
    \E f \in [1..Len(s) -> 1..Len(t)] :
        /\ \A i \in 1..Len(s) : t[f[i]] = s[i]
        /\ \A i, j \in 1..Len(s) : i < j => f[i] < f[j]

\* the first loop of a resumed run is over
Copied == resumed /\ pc \in {"check", "done", "crashed"}

\* C13 as stated: once the first loop of a resumed run is over, the rows it
\* wrote stand directly after the header and before the newly computed rows,
\* and they are stored rows, with their stored values, in the relative order in
\* which they were stored.
C13_LoadedRowsInStoredOrder ==
    Copied =>
        /\ outfiles[OUTFILE].lines[1] = CsvHeader
        /\ \A k \in 1..Len(NewRows) : RowKey(NewRows[k]) = md5calls[k]
        /\ IsSubsequence(CopiedRows, StoredRows)

\* the positions of the stored rows that are the first of their path key
FirstOfKey ==
    {i \in 1..Len(StoredRows) :
        \A j \in 1..(i - 1) : RowKey(StoredRows[j]) # RowKey(StoredRows[i])}

\* the last stored row that has the path key of the row stored at i
LastOfKey(i) ==
    LET same == {j \in 1..Len(StoredRows) : RowKey(StoredRows[j]) = RowKey(StoredRows[i])}
    IN StoredRows[CHOOSE j \in same : \A k \in same : k <= j]

\* C13 as amended: the rows written by the first loop stand directly after
\* the header and before the newly computed rows; there is one for each path
\* key stored, in the order of the keys' first rows, with the values of the
\* key's last row; they are the stored rows, in stored order, when no two
\* stored rows share a path key.
C13_LoadedRowsByKey ==
    Copied =>
        /\ outfiles[OUTFILE].lines[1] = CsvHeader
        /\ \A k \in 1..Len(NewRows) : RowKey(NewRows[k]) = md5calls[k]
        /\ Len(CopiedRows) = Cardinality(FirstOfKey)
        /\ \A i \in FirstOfKey :
              CopiedRows[Cardinality({j \in FirstOfKey : j <= i})] = LastOfKey(i)
        /\ ~HasDuplicateKeys(stored) => CopiedRows = StoredRows

\* a completed run that wrote back two stored rows of different path keys and
\* a newly computed row after them
C13_Witness ==
    /\ pc = "done" /\ resumed
    /\ Len(CopiedRows) >= 2
    /\ ~HasDuplicateKeys(stored)
    /\ NewRows # <<>>

\* C14: throughout a run count does not exceed total, and a completed run
\* has count equal to total.
C14_CountWithinTotal ==
    (pc \in {"copy", "check", "done", "crashed"}) =>
        /\ count <= total
        /\ pc = "done" => count = total

----------------------------------------------------------------------------
\* Properties of compare (checked under SpecCompare)

\* the entries the code extracts from a file
ParsedSet(filepath) == Range(ParseLines(Content(filepath)).result)

\* the sets of the files that were parsed successfully
ParsedSets == {ParsedSet(filelists[n].key) : n \in 1..Len(filelists)}

\* the lines of the report
ReportLines(text) == {stdout[i] : i \in {k \in 1..Len(stdout) : stdout[k].text = text}}

\* C5: when two or more inputs were parsed, the common set is the set of the
\* entries that are in every parsed set and its size is the count reported;
\* for each input the unique list reported holds that input's entries that
\* are not common, so common and unique are disjoint and together make up the
\* input's set.
C5_CommonAndUnique ==
    (pc = "done" /\ Len(filelists) >= 2) =>
        /\ common = {e \in UNION ParsedSets : \A S \in ParsedSets : e \in S}
        /\ \A l \in ReportLines("common") : l.row = <<Cardinality(common)>>
        /\ Cardinality(ReportLines("unique")) = Len(filelists)
        /\ \A l \in ReportLines("unique") :
              LET input == ParsedSet(l.row[2])
                  unique == Range(l.row[3])
              IN /\ unique = input \ common
                 /\ unique \cap common = {}
                 /\ unique \cup common = input
                 /\ Len(l.row[3]) = Cardinality(unique)

\* a report on three parsed inputs with common entries and unique ones
C5_Witness ==
    /\ pc = "done" /\ Len(filelists) >= 3
    /\ common # {}
    /\ \E l \in ReportLines("unique") : l.row[3] # <<>>

\* C6: when the loop is over and no input was parsed, compare fails with
\* EmptyIntersectionError and reports no common count and no unique list.
C6_EmptyIntersectionError ==
    (pc \in {"done", "crashed"} /\ idx > Len(all_files) /\ filelists = <<>>) =>
        /\ pc = "crashed" /\ err = "EmptyIntersectionError"
        /\ ReportLines("common") = {} /\ ReportLines("unique") = {}

\* a first line with a cell that is the column name
HasColumn(line, col) ==
    \E d \in {TAB, COMMA} : \E i \in 1..Len(Split(line, d)) : Split(line, d)[i] = <<col>>

\* neither a Tivoli report nor a table with a Key or Filename column
Unrecognized(filepath) ==
    LET lines == Content(filepath)
    IN \/ lines = <<>>
       \/ /\ lines[1] # <<SIG>>
          /\ ~HasColumn(lines[1], KEY)
          /\ ~HasColumn(lines[1], FILENAME)

\* C7: an input that is neither a Tivoli report nor a table with a Key or
\* Filename column does not end the command; once the loop has passed it, it
\* is reported as not parsed and is not among the parsed lists.
C7_UnrecognizedSkipped ==
    (pc \in {"parse", "done", "crashed"}) =>
        \A i \in 1..Len(all_files) : Unrecognized(all_files[i]) =>
            /\ ~(pc = "crashed" /\ idx = i)
            /\ i < idx =>
                  /\ \E l \in ReportLines("has not been parsed") : l.row = <<all_files[i]>>
                  /\ \A n \in 1..Len(filelists) : filelists[n].key # all_files[i]

----------------------------------------------------------------------------
\* Properties of verify (checked under SpecVerify)

\* an argument that is neither an existing file nor an existing directory
NotFound(p) == ~isfile(p) /\ ~isdir(p)

\* C11: once verify has met an argument that is neither a file nor a
\* directory it has ended with NotFoundError: it has not gone on to the
\* other argument and has printed no result.
C11_VerifyAbortsOnMissing ==
    \A i \in 1..Len(all_paths) : (i < idx /\ NotFound(all_paths[i])) =>
        /\ pc = "crashed" /\ err = "NotFoundError"
        /\ idx = i + 1
        /\ ReportLines("inventories") = {}

====
